---- MODULE Spec2Model ----
(***************************************************************************)
(* BedrockService (src/fastapi-backend/services/bedrock_service.py): the   *)
(* feedback broker with its response cache, its three sliding request      *)
(* windows and its request statistics.  The calls section takes each       *)
(* public method as one whole call; the step-by-step section takes         *)
(* get_feedback apart into its reads and writes of the shared attributes.  *)
(***************************************************************************)
EXTENDS Integers, Sequences, FiniteSets, TLC

(* ---- configuration read from the environment in __init__ ---- *)
\* BEDROCK_MAX_REQUESTS_PER_MINUTE, configured to 2 for the analysis
max_requests_per_minute == 2
\* BEDROCK_MAX_REQUESTS_PER_HOUR, configured to 3
max_requests_per_hour == 3
\* BEDROCK_MAX_REQUESTS_PER_USER_PER_MINUTE, configured to 1
max_requests_per_user_per_minute == 1
\* BEDROCK_CACHE_TTL_SECONDS, configured to 90
cache_ttl_seconds == 90
\* BEDROCK_MAX_CACHE_SIZE, configured to 2
max_cache_size == 2

(* ---- window lengths written into the code, in seconds ---- *)
MinuteWindow == 60
HourWindow == 3600

Users == {"u1", "u2"}

VARIABLES
    now,                        \* the wall clock read by time.time() and datetime.now()
    enabled,                    \* self.enabled
    client,                     \* self.client is not None
    request_timestamps,         \* self.request_timestamps
    hourly_request_timestamps,  \* self.hourly_request_timestamps
    user_request_limits,        \* self.user_request_limits: user id -> list of timestamps
    request_stats,              \* self.request_stats
    cache,                      \* self.cache, in insertion order: <<[key, response, timestamp]>>
    last,                       \* the most recent call and what it returned
    nreq,                       \* number of get_feedback calls so far
    nticks,                     \* number of times the clock advanced so far
    nadmin,                     \* number of status, clear and reset calls so far
    recorded,                   \* history: every <<user, time>> _add_request_timestamp appended
    hist,                       \* history: key -> what the latest cache miss for it stored, by
                                \* whom and when, and how many misses of other keys followed;
                                \* emptied by clear_cache
    limitedAt,                  \* history: user -> time of the latest user_minute_limit denial
    scen,                       \* history: user -> the run of cache misses within one minute
    reply,                      \* what the latest status, clear or reset call returned, and
                                \* the number of get_feedback calls made before it
    since,                      \* history: path -> number of get_feedback calls that took it
                                \* since the latest reset_statistics
    frame                       \* thread -> the call of get_feedback it runs step by step:
                                \* where it stands, its locals, and the course it took

vars == <<now, enabled, client, request_timestamps, hourly_request_timestamps,
          user_request_limits, request_stats, cache, last, nreq, nticks, nadmin,
          recorded, hist, limitedAt, scen, reply, since, frame>>

(* ---- the error catalog ---- *)
error_prompts ==
    ("THUMB_LOW" :> "User is learning ASL sign '{sign}' and their thumb is positioned too low compared to the target. The thumb should be higher for proper hand shape.")
    @@ ("THUMB_HIGH" :> "User is learning ASL sign '{sign}' and their thumb is positioned too high compared to the target. The thumb needs to be lowered slightly.")
    @@ ("THUMB_ANGLE" :> "User is learning ASL sign '{sign}' and their thumb angle is incorrect. The thumb orientation needs adjustment.")
    @@ ("FINGERS_SPREAD" :> "User is learning ASL sign '{sign}' and their fingers are too spread apart. The fingers should be closer together for this sign.")
    @@ ("FINGERS_CLOSED" :> "User is learning ASL sign '{sign}' and their fingers are too closed together. The fingers need more separation.")
    @@ ("FINGERS_CURVED" :> "User is learning ASL sign '{sign}' and their fingers are too curved. The fingers should be straighter.")
    @@ ("FINGERS_STRAIGHT" :> "User is learning ASL sign '{sign}' and their fingers are too straight. The fingers should have more natural curve.")
    @@ ("HAND_ANGLE" :> "User is learning ASL sign '{sign}' and their hand angle is incorrect. The hand orientation needs to be adjusted.")
    @@ ("HAND_ROTATION" :> "User is learning ASL sign '{sign}' and their hand rotation is incorrect. The palm direction should match the target.")
    @@ ("WRIST_BEND" :> "User is learning ASL sign '{sign}' and their wrist is bent incorrectly. The wrist should be more neutral.")
    @@ ("WRIST_ANGLE" :> "User is learning ASL sign '{sign}' and their wrist angle needs adjustment for proper form.")
    @@ ("ARM_POSITION" :> "User is learning ASL sign '{sign}' and their arm position needs adjustment. The arm should be repositioned.")
    @@ ("ELBOW_WIDE" :> "User is learning ASL sign '{sign}' and their elbow angle is too wide. The elbow should be closer to the body.")
    @@ ("ELBOW_NARROW" :> "User is learning ASL sign '{sign}' and their elbow angle is too narrow. The elbow needs more space from the body.")
    @@ ("ELBOW_HEIGHT" :> "User is learning ASL sign '{sign}' and their elbow height is incorrect. The elbow position should be adjusted vertically.")
    @@ ("TIMING_FAST" :> "User is learning ASL sign '{sign}' and their movement is too fast. The sign should be performed more slowly.")
    @@ ("TIMING_SLOW" :> "User is learning ASL sign '{sign}' and their movement is too slow. The sign can be performed more quickly.")
    @@ ("MOVEMENT_JERKY" :> "User is learning ASL sign '{sign}' and their movement is too jerky. The motion should be smoother.")
    @@ ("MOVEMENT_INCOMPLETE" :> "User is learning ASL sign '{sign}' and their movement is incomplete. The full range of motion is needed.")
    @@ ("GENERAL_FORM" :> "User is learning ASL sign '{sign}' and their overall form needs improvement. Multiple aspects need adjustment.")
    @@ ("HAND_SHAPE" :> "User is learning ASL sign '{sign}' and their hand shape is not quite right. The finger configuration needs refinement.")
    @@ ("SPATIAL_POSITION" :> "User is learning ASL sign '{sign}' and their hand is in the wrong spatial location. The position relative to the body needs adjustment.")

\* fault: a code with a prompt has no fallback message
fallback_messagesIncomplete ==
    [error_code \in DOMAIN error_prompts \ {"SPATIAL_POSITION"} |->
        "Good work! Keep practicing."]

fallback_messages ==
    ("THUMB_LOW" :> "Great effort! Try lifting your thumb just a bit higher - you're almost there!")
    @@ ("THUMB_HIGH" :> "Nice work! Lower your thumb slightly for better form.")
    @@ ("THUMB_ANGLE" :> "Good job! Adjust your thumb angle to match the target position.")
    @@ ("FINGERS_SPREAD" :> "Good job! Bring your fingers a little closer together.")
    @@ ("FINGERS_CLOSED" :> "You're doing well! Spread your fingers out just a touch more.")
    @@ ("FINGERS_CURVED" :> "Nice effort! Try straightening your fingers a bit more.")
    @@ ("FINGERS_STRAIGHT" :> "Great work! Let your fingers curve more naturally.")
    @@ ("HAND_ANGLE" :> "Almost perfect! Adjust your hand angle slightly.")
    @@ ("HAND_ROTATION" :> "Keep it up! Rotate your hand slightly to match the target position.")
    @@ ("WRIST_BEND" :> "Nice effort! Keep your wrist more relaxed and natural.")
    @@ ("WRIST_ANGLE" :> "Good progress! Adjust your wrist angle for better form.")
    @@ ("ARM_POSITION" :> "Great start! Try adjusting your arm position a bit.")
    @@ ("ELBOW_WIDE" :> "Good progress! Bring your elbow in a little closer to your body.")
    @@ ("ELBOW_NARROW" :> "You're getting there! Open up your elbow angle just a bit more.")
    @@ ("ELBOW_HEIGHT" :> "Nice work! Adjust your elbow height to match the target.")
    @@ ("TIMING_FAST" :> "Excellent effort! Try slowing down your movement just a little.")
    @@ ("TIMING_SLOW" :> "Nice work! You can speed up your movement slightly.")
    @@ ("MOVEMENT_JERKY" :> "Good job! Try to make your movement smoother and more fluid.")
    @@ ("MOVEMENT_INCOMPLETE" :> "Great start! Complete the full range of motion for this sign.")
    @@ ("GENERAL_FORM" :> "You're making progress! Keep practicing and you'll get it!")
    @@ ("HAND_SHAPE" :> "Nice effort! Refine your hand shape to match the target.")
    @@ ("SPATIAL_POSITION" :> "Good work! Adjust your hand position relative to your body.")

DefaultFallback == "Keep practicing - you're doing great!"

\* fault: the lookup is made without its default
FallbackForNoDefault(error_code) ==
    IF error_code \in DOMAIN fallback_messages
    THEN fallback_messages[error_code]
    ELSE ""

\* self.fallback_messages.get(error_code, "Keep practicing - you're doing great!")
FallbackFor(error_code) ==
    IF error_code \in DOMAIN fallback_messages
    THEN fallback_messages[error_code]
    ELSE DefaultFallback

(* ---- strings ---- *)
RECURSIVE Join(_)
\* the string made of a list of characters
Join(cs) == IF cs = <<>> THEN "" ELSE Head(cs) \o Join(Tail(cs))

RECURSIVE LStrip(_)
LStrip(cs) == IF cs # <<>> /\ Head(cs) = " " THEN LStrip(Tail(cs)) ELSE cs

RECURSIVE RStrip(_)
RStrip(cs) ==
    IF cs # <<>> /\ cs[Len(cs)] = " " THEN RStrip(SubSeq(cs, 1, Len(cs) - 1)) ELSE cs

\* str.strip() of the reply text, as _call_bedrock returns it
Strip(cs) == Join(RStrip(LStrip(cs)))

\* hashlib.md5(...).hexdigest(): a digest of the text, distinct texts having distinct digests
Md5Hex(s) == <<"md5", s>>

\* _generate_cache_key
GenerateCacheKey(sign, error_code) == Md5Hex(sign \o ":" \o error_code)

(* ---- the request windows ---- *)
\* fault: a timestamp exactly one window old is kept
FreshInclusive(t, ts, window) == t - ts <= window

\* the filter of the list comprehensions: now - ts < window
Fresh(t, ts, window) == t - ts < window

\* fault: stale timestamps are never dropped
PruneNothing(timestamps, t, window) == timestamps

\* [ts for ts in timestamps if now - ts < window]
Prune(timestamps, t, window) ==
    LET Keep(ts) == Fresh(t, ts, window) IN SelectSeq(timestamps, Keep)

\* fault: a tier is full only once it is over its ceiling
AtCeilingStrict(n, ceiling) == n > ceiling

\* the test of a tier: len(timestamps) >= ceiling
AtCeiling(n, ceiling) == n >= ceiling

\* fault: the caller's tier is tested before the global tiers
IsRateLimitedUserFirst(user_id, t, rt, hrt, url) ==
    LET rt1 == Prune(rt, t, MinuteWindow)
        hrt1 == Prune(hrt, t, HourWindow)
        url1 == IF user_id \in DOMAIN url THEN url ELSE url @@ (user_id :> <<>>)
        url2 == [url1 EXCEPT ![user_id] = Prune(@, t, MinuteWindow)]
        Answer(limited, reason) ==
            [limited |-> limited, reason |-> reason,
             rt |-> rt1, hrt |-> hrt1, url |-> url2]
    IN  IF AtCeiling(Len(url2[user_id]), max_requests_per_user_per_minute)
        THEN Answer(TRUE, "user_minute_limit")
        ELSE IF AtCeiling(Len(rt1), max_requests_per_minute)
        THEN Answer(TRUE, "global_minute_limit")
        ELSE IF AtCeiling(Len(hrt1), max_requests_per_hour)
        THEN Answer(TRUE, "global_hour_limit")
        ELSE Answer(FALSE, "")

\* _is_rate_limited at clock t: the answer and the lists as it leaves them
IsRateLimited(user_id, t, rt, hrt, url) ==
    LET rt1 == Prune(rt, t, MinuteWindow)
        hrt1 == Prune(hrt, t, HourWindow)
        url1 == IF user_id \in DOMAIN url THEN url ELSE url @@ (user_id :> <<>>)
        url2 == [url1 EXCEPT ![user_id] = Prune(@, t, MinuteWindow)]
    IN  IF AtCeiling(Len(rt1), max_requests_per_minute)
        THEN [limited |-> TRUE, reason |-> "global_minute_limit",
              rt |-> rt1, hrt |-> hrt1, url |-> url]
        ELSE IF AtCeiling(Len(hrt1), max_requests_per_hour)
        THEN [limited |-> TRUE, reason |-> "global_hour_limit",
              rt |-> rt1, hrt |-> hrt1, url |-> url]
        ELSE IF AtCeiling(Len(url2[user_id]), max_requests_per_user_per_minute)
        THEN [limited |-> TRUE, reason |-> "user_minute_limit",
              rt |-> rt1, hrt |-> hrt1, url |-> url2]
        ELSE [limited |-> FALSE, reason |-> "",
              rt |-> rt1, hrt |-> hrt1, url |-> url2]

\* fault: the caller's own list is not appended to
AddRequestTimestampGlobalOnly(user_id, t, rt, hrt, url, stats) ==
    [rt |-> Append(rt, t),
     hrt |-> Append(hrt, t),
     url |-> IF user_id \in DOMAIN url THEN url ELSE url @@ (user_id :> <<>>),
     stats |-> [stats EXCEPT !.total_requests = @ + 1]]

\* fault: the request is recorded but not counted
AddRequestTimestampUncounted(user_id, t, rt, hrt, url, stats) ==
    [rt |-> Append(rt, t),
     hrt |-> Append(hrt, t),
     url |-> [url EXCEPT ![user_id] = Append(@, t)],
     stats |-> stats]

\* fault: the hour's list is not appended to
AddRequestTimestampNoHour(user_id, t, rt, hrt, url, stats) ==
    LET url1 == IF user_id \in DOMAIN url THEN url ELSE url @@ (user_id :> <<>>)
    IN  [rt |-> Append(rt, t),
         hrt |-> hrt,
         url |-> [url1 EXCEPT ![user_id] = Append(@, t)],
         stats |-> [stats EXCEPT !.total_requests = @ + 1]]

\* fault: the request is counted twice in the total
AddRequestTimestampCountedTwice(user_id, t, rt, hrt, url, stats) ==
    LET url1 == IF user_id \in DOMAIN url THEN url ELSE url @@ (user_id :> <<>>)
    IN  [rt |-> Append(rt, t),
         hrt |-> Append(hrt, t),
         url |-> [url1 EXCEPT ![user_id] = Append(@, t)],
         stats |-> [stats EXCEPT !.total_requests = @ + 2]]

\* _add_request_timestamp at clock t
AddRequestTimestamp(user_id, t, rt, hrt, url, stats) ==
    LET url1 == IF user_id \in DOMAIN url THEN url ELSE url @@ (user_id :> <<>>)
    IN  [rt |-> Append(rt, t),
         hrt |-> Append(hrt, t),
         url |-> [url1 EXCEPT ![user_id] = Append(@, t)],
         stats |-> [stats EXCEPT !.total_requests = @ + 1]]

(* ---- the response cache ---- *)
\* fault: every response is built as a success
FeedbackResponseSucceeded(success, feedback, error_code, sign, timestamp, source) ==
    [success |-> TRUE, feedback |-> feedback, error_code |-> error_code,
     sign |-> sign, timestamp |-> timestamp, source |-> source, cached |-> FALSE]

\* a FeedbackResponse object
FeedbackResponse(success, feedback, error_code, sign, timestamp, source) ==
    [success |-> success, feedback |-> feedback, error_code |-> error_code,
     sign |-> sign, timestamp |-> timestamp, source |-> source, cached |-> FALSE]

\* position of cache_key in the dict, 0 when it is not a key
CacheIndex(c, cache_key) ==
    IF \E i \in 1..Len(c) : c[i].key = cache_key
    THEN CHOOSE i \in 1..Len(c) : c[i].key = cache_key
    ELSE 0

\* del self.cache[key] for the key at position i
CacheDelete(c, i) == SubSeq(c, 1, i - 1) \o SubSeq(c, i + 1, Len(c))

\* fault: an entry as old as the time to live is already expired
ExpiredInclusive(t, timestamp) == t - timestamp >= cache_ttl_seconds

\* fault: the age is taken the wrong way round, so nothing ever expires
ExpiredReversed(t, timestamp) == timestamp - t > cache_ttl_seconds

\* cached_item['timestamp'] is older than the time to live
Expired(t, timestamp) == t - timestamp > cache_ttl_seconds

\* fault: a hit returns the stored object without marking it as cached
GetCachedFeedbackUnmarked(c, cache_key, t) ==
    LET i == CacheIndex(c, cache_key)
    IN  IF i = 0 THEN [hit |-> FALSE, expired |-> FALSE, cache |-> c]
        ELSE IF t - c[i].timestamp > cache_ttl_seconds
        THEN [hit |-> FALSE, expired |-> TRUE, cache |-> CacheDelete(c, i)]
        ELSE [hit |-> TRUE, expired |-> FALSE, cache |-> c]

\* fault: an entry that holds the reply to a denied request is passed over, not served
GetCachedFeedbackNoDenials(c, cache_key, t) ==
    LET i == CacheIndex(c, cache_key)
    IN  IF i = 0 THEN [hit |-> FALSE, expired |-> FALSE, cache |-> c]
        ELSE IF Expired(t, c[i].timestamp)
        THEN [hit |-> FALSE, expired |-> TRUE, cache |-> CacheDelete(c, i)]
        ELSE IF c[i].response.source \notin {"fallback", "bedrock", "fallback_bedrock_error",
                                             "fallback_unexpected_error"}
        THEN [hit |-> FALSE, expired |-> FALSE, cache |-> c]
        ELSE [hit |-> TRUE, expired |-> FALSE,
              cache |-> [c EXCEPT ![i].response.cached = TRUE]]

\* _get_cached_feedback at clock t: the object returned (hit) and the cache afterwards;
\* a hit sets .cached on the stored object itself
GetCachedFeedback(c, cache_key, t) ==
    LET i == CacheIndex(c, cache_key)
    IN  IF i = 0 THEN [hit |-> FALSE, expired |-> FALSE, cache |-> c]
        ELSE IF Expired(t, c[i].timestamp)
        THEN [hit |-> FALSE, expired |-> TRUE, cache |-> CacheDelete(c, i)]
        ELSE [hit |-> TRUE, expired |-> FALSE,
              cache |-> [c EXCEPT ![i].response.cached = TRUE]]

\* fault: max for min, the newest entry is evicted
NewestIndex(c) ==
    CHOOSE i \in 1..Len(c) : \A j \in 1..Len(c) : c[i].timestamp >= c[j].timestamp

\* min(self.cache.keys(), key=timestamp): the first of the entries with the least timestamp
OldestIndex(c) ==
    CHOOSE i \in 1..Len(c) :
        \A j \in 1..Len(c) :
            /\ c[i].timestamp <= c[j].timestamp
            /\ (c[j].timestamp = c[i].timestamp => i <= j)

\* fault: eviction starts only once the cache is over its size
AtCapacityStrict(n) == n > max_cache_size

\* the test for eviction: len(self.cache) >= self.max_cache_size
AtCapacity(n) == n >= max_cache_size

\* fault: only a key the cache already holds is stored
CacheFeedbackKnownOnly(c, cache_key, response, t) ==
    LET i == CacheIndex(c, cache_key)
    IN  IF i = 0 THEN c
        ELSE [c EXCEPT ![i] = [key |-> cache_key, response |-> response,
                               timestamp |-> t]]

\* fault: a result with success = False is not stored
CacheFeedbackSuccessOnly(c, cache_key, response, t) ==
    LET c1 == IF AtCapacity(Len(c)) THEN CacheDelete(c, OldestIndex(c)) ELSE c
        i == CacheIndex(c1, cache_key)
        item == [key |-> cache_key, response |-> response, timestamp |-> t]
    IN  IF ~response.success THEN c
        ELSE IF i = 0 THEN Append(c1, item) ELSE [c1 EXCEPT ![i] = item]

\* _cache_feedback at clock t
CacheFeedback(c, cache_key, response, t) ==
    LET c1 == IF AtCapacity(Len(c)) THEN CacheDelete(c, OldestIndex(c)) ELSE c
        i == CacheIndex(c1, cache_key)
        item == [key |-> cache_key, response |-> response, timestamp |-> t]
    IN  IF i = 0 THEN Append(c1, item) ELSE [c1 EXCEPT ![i] = item]

(* ---- get_feedback ---- *)
\* no upstream call is made
NoCall == [kind |-> "none", body |-> <<>>]

\* fault: the total is left out of the counters set to zero
ZeroStatsButTotal ==
    [total_requests |-> 1, bedrock_requests |-> 0, fallback_requests |-> 0,
     cached_requests |-> 0, rate_limited_requests |-> 0]

ZeroStats ==
    [total_requests |-> 0, bedrock_requests |-> 0, fallback_requests |-> 0,
     cached_requests |-> 0, rate_limited_requests |-> 0]

\* One whole call of get_feedback at clock now.  up is what the upstream call does,
\* should the call be made.  The result names the path taken, the object returned and
\* every attribute of the service as the call leaves it.
GetFeedbackResult(sign, error_code, user_id, up) ==
    LET timestamp == now
        cache_key == GenerateCacheKey(sign, error_code)
        look == GetCachedFeedback(cache, cache_key, now)
        rl == IsRateLimited(user_id, now, request_timestamps,
                            hourly_request_timestamps, user_request_limits)
        add == AddRequestTimestamp(user_id, now, rl.rt, rl.hrt, rl.url, request_stats)
        fb == FallbackFor(error_code)
        Admitted(path, called, response, stats) ==
            [path |-> path, reason |-> "", called |-> called, added |-> TRUE,
             response |-> response,
             cache |-> CacheFeedback(look.cache, cache_key, response, now),
             rt |-> add.rt, hrt |-> add.hrt, url |-> add.url, stats |-> stats]
    IN  IF look.hit
        THEN [path |-> "cached", reason |-> "", called |-> FALSE, added |-> FALSE,
              response |-> look.cache[CacheIndex(look.cache, cache_key)].response,
              cache |-> look.cache,
              rt |-> request_timestamps, hrt |-> hourly_request_timestamps,
              url |-> user_request_limits,
              stats |-> [request_stats EXCEPT !.cached_requests = @ + 1]]
        ELSE IF rl.limited
        THEN LET response == FeedbackResponse(TRUE, fb, error_code, sign, timestamp,
                                 "fallback_rate_limited_" \o rl.reason)
             IN  [path |-> "rate_limited", reason |-> rl.reason, called |-> FALSE,
                  added |-> FALSE, response |-> response,
                  cache |-> CacheFeedback(look.cache, cache_key, response, now),
                  rt |-> rl.rt, hrt |-> rl.hrt, url |-> rl.url,
                  stats |-> [request_stats EXCEPT !.rate_limited_requests = @ + 1]]
        ELSE IF ~enabled \/ ~client
        THEN Admitted("disabled", FALSE,
                 FeedbackResponse(TRUE, fb, error_code, sign, timestamp, "fallback"),
                 [add.stats EXCEPT !.fallback_requests = @ + 1])
        ELSE IF up.kind = "text"
        THEN Admitted("bedrock", TRUE,
                 FeedbackResponse(TRUE, Strip(up.body), error_code, sign, timestamp,
                                  "bedrock"),
                 [add.stats EXCEPT !.bedrock_requests = @ + 1])
        ELSE IF up.kind = "ClientError"
        THEN Admitted("client_error", TRUE,
                 FeedbackResponse(FALSE, fb, error_code, sign, timestamp,
                                  "fallback_bedrock_error"),
                 [add.stats EXCEPT !.fallback_requests = @ + 1])
        ELSE Admitted("unexpected_error", TRUE,
                 FeedbackResponse(FALSE, fb, error_code, sign, timestamp,
                                  "fallback_unexpected_error"),
                 [add.stats EXCEPT !.fallback_requests = @ + 1])

(* ---- history of the admitted requests ---- *)
\* the requests recorded in the window of the given length that ends at instant t
InWindow(t, window) ==
    {i \in DOMAIN recorded : recorded[i][2] <= t /\ t - recorded[i][2] < window}

GlobalCount(t, window) == Cardinality(InWindow(t, window))

UserCount(user_id, t, window) ==
    Cardinality({i \in InWindow(t, window) : recorded[i][1] = user_id})

\* neither global tier is at its ceiling at instant t
GlobalsFree(t) ==
    /\ GlobalCount(t, MinuteWindow) < max_requests_per_minute
    /\ GlobalCount(t, HourWindow) < max_requests_per_hour

NoScen == [active |-> FALSE, t0 |-> 0, n |-> 0, g |-> FALSE]

\* the run of cache misses of one caller: it starts at a miss made with an empty cache,
\* no request of the caller in the last minute and both global tiers below their
\* ceilings, and counts the caller's misses of the next minute; g tells whether the
\* global tiers were below their ceilings at every one of them
NextScen(s, user_id) ==
    IF cache = <<>> /\ UserCount(user_id, now, MinuteWindow) = 0 /\ GlobalsFree(now)
    THEN [active |-> TRUE, t0 |-> now, n |-> 1, g |-> TRUE]
    ELSE IF s.active /\ now - s.t0 < MinuteWindow
    THEN [s EXCEPT !.n = @ + 1, !.g = @ /\ GlobalsFree(now)]
    ELSE NoScen

\* the ways get_feedback ends
Paths == {"cached", "rate_limited", "disabled", "bedrock", "client_error",
          "unexpected_error"}
NoPaths == [p \in Paths |-> 0]

(* ---- the threads that call get_feedback ---- *)
Threads == {1, 2}

\* no key: every real key is the digest of a string that holds ':'
NoKey == Md5Hex("")
NoResponse == FeedbackResponse(FALSE, "", "", "", 0, "")
NoItem == [key |-> NoKey, response |-> NoResponse, timestamp |-> 0]

\* the locals of a call that has not started
IdleFrame ==
    [pc |-> "idle", sign |-> "", error_code |-> "", user_id |-> "", timestamp |-> 0,
     cache_key |-> NoKey, cached_item |-> NoItem, limit_reason |-> "", site |-> "",
     loaded |-> 0, feedback_text |-> "", oldest_key |-> NoKey, response |-> NoResponse,
     in_try |-> FALSE, missed |-> FALSE, admitted |-> FALSE, available |-> FALSE,
     calls |-> 0, overlap |-> {}]

(* ---- the state after __init__ ---- *)
\* USE_BEDROCK and the credentials decide whether the client exists; _initialize_client
\* clears enabled whenever it leaves the client unset
Init ==
    /\ now = 0
    /\ enabled \in BOOLEAN
    /\ client = enabled
    /\ request_timestamps = <<>>
    /\ hourly_request_timestamps = <<>>
    /\ user_request_limits = <<>>
    /\ request_stats = ZeroStats
    /\ cache = <<>>
    /\ last = [op |-> "init"]
    /\ nreq = 0
    /\ nticks = 0
    /\ nadmin = 0
    /\ recorded = <<>>
    /\ hist = <<>>
    /\ limitedAt = <<>>
    /\ scen = [u \in Users |-> NoScen]
    /\ reply = [op |-> "none"]
    /\ since = NoPaths
    /\ frame = [t \in Threads |-> IdleFrame]

(* ---- the calls ---- *)
\* get_feedback(sign, error_code, user_id), the upstream doing up if it is called
GetFeedback(sign, error_code, user_id, up) ==
    LET r == GetFeedbackResult(sign, error_code, user_id, up)
        cache_key == GenerateCacheKey(sign, error_code)
        look == GetCachedFeedback(cache, cache_key, now)
    IN  /\ r.called = (up # NoCall)
        /\ request_timestamps' = r.rt
        /\ hourly_request_timestamps' = r.hrt
        /\ user_request_limits' = r.url
        /\ request_stats' = r.stats
        /\ cache' = r.cache
        /\ last' = [op |-> "get_feedback", sign |-> sign,
                    error_code |-> error_code, user_id |-> user_id,
                    at |-> now, path |-> r.path, expired |-> look.expired,
                    reason |-> r.reason, called |-> r.called,
                    raised |-> FALSE, response |-> r.response]
        /\ nreq' = nreq + 1
        /\ recorded' = IF r.added THEN Append(recorded, <<user_id, now>>)
                       ELSE recorded
        /\ hist' = IF r.path = "cached" THEN hist
                   ELSE [k \in DOMAIN hist \cup {cache_key} |->
                           IF k = cache_key
                           THEN [feedback |-> r.response.feedback,
                                 source |-> r.response.source,
                                 at |-> now, by |-> user_id, others |-> 0]
                           ELSE [hist[k] EXCEPT !.others = @ + 1]]
        /\ limitedAt' = IF r.reason = "user_minute_limit"
                        THEN [u \in DOMAIN limitedAt \cup {user_id} |->
                                IF u = user_id THEN now ELSE limitedAt[u]]
                        ELSE limitedAt
        /\ scen' = IF r.path = "cached" THEN scen
                   ELSE [scen EXCEPT ![user_id] = NextScen(@, user_id)]
        /\ since' = [since EXCEPT ![r.path] = @ + 1]
        /\ UNCHANGED <<frame, now, enabled, client, nticks, nadmin, reply>>

\* get_service_status at clock now: the dictionary returned and the lists afterwards
ServiceStatus ==
    LET rt1 == Prune(request_timestamps, now, MinuteWindow)
        hrt1 == Prune(hourly_request_timestamps, now, HourWindow)
    IN  [rt |-> rt1, hrt |-> hrt1,
         ret |-> [enabled |-> enabled,
                  client_initialized |-> client,
                  rate_limits |->
                      [max_requests_per_minute |-> max_requests_per_minute,
                       max_requests_per_hour |-> max_requests_per_hour,
                       max_requests_per_user_per_minute |->
                           max_requests_per_user_per_minute,
                       current_minute_requests |-> Len(rt1),
                       current_hour_requests |-> Len(hrt1),
                       active_users |-> Cardinality(DOMAIN user_request_limits)],
                  cache |-> [size |-> Len(cache), max_size |-> max_cache_size,
                             ttl_seconds |-> cache_ttl_seconds],
                  statistics |-> request_stats]]

GetServiceStatus ==
    /\ request_timestamps' = ServiceStatus.rt
    /\ hourly_request_timestamps' = ServiceStatus.hrt
    /\ reply' = [op |-> "get_service_status", user_id |-> "", nreq |-> nreq,
                 ret |-> ServiceStatus.ret]
    /\ UNCHANGED <<frame, now, enabled, client, user_request_limits, request_stats, cache,
                   last, nreq, nticks, recorded, hist, limitedAt, scen, since>>

\* fault: the entries are counted after the cache is emptied
ClearCacheCountedAfter ==
    /\ cache' = <<>>
    /\ hist' = <<>>
    /\ reply' = [op |-> "clear_cache", user_id |-> "", nreq |-> nreq, ret |-> 0]
    /\ UNCHANGED <<frame, now, enabled, client, request_timestamps, hourly_request_timestamps,
                   user_request_limits, request_stats, last, nreq, nticks, recorded,
                   limitedAt, scen, since>>

\* clear_cache
ClearCache ==
    /\ cache' = <<>>
    /\ hist' = <<>>
    /\ reply' = [op |-> "clear_cache", user_id |-> "", nreq |-> nreq,
                 ret |-> Len(cache)]
    /\ UNCHANGED <<frame, now, enabled, client, request_timestamps, hourly_request_timestamps,
                   user_request_limits, request_stats, last, nreq, nticks, recorded,
                   limitedAt, scen, since>>

\* fault: the caller's requests are counted before the stale ones are dropped
RateLimitStatusStaleUser(user_id) ==
    LET rt1 == Prune(request_timestamps, now, MinuteWindow)
        hrt1 == Prune(hourly_request_timestamps, now, HourWindow)
        user_requests == IF user_id \in DOMAIN user_request_limits
                         THEN Len(user_request_limits[user_id]) ELSE 0
        rl == IsRateLimited(user_id, now, rt1, hrt1, user_request_limits)
        Tier(current, max) ==
            [current |-> current, max |-> max,
             remaining |-> IF max - current > 0 THEN max - current ELSE 0]
    IN  [rt |-> rl.rt, hrt |-> rl.hrt, url |-> rl.url,
         ret |-> [user_id |-> user_id,
                  is_rate_limited |-> rl.limited,
                  limit_reason |-> rl.reason,
                  global_minute |-> Tier(Len(rl.rt), max_requests_per_minute),
                  global_hour |-> Tier(Len(rl.hrt), max_requests_per_hour),
                  user_minute |-> Tier(user_requests,
                                       max_requests_per_user_per_minute)]]

\* get_rate_limit_status at clock now: the dictionary returned and the lists afterwards
RateLimitStatus(user_id) ==
    LET rt1 == Prune(request_timestamps, now, MinuteWindow)
        hrt1 == Prune(hourly_request_timestamps, now, HourWindow)
        url1 == IF user_id \in DOMAIN user_request_limits
                THEN [user_request_limits EXCEPT
                          ![user_id] = Prune(@, now, MinuteWindow)]
                ELSE user_request_limits
        user_requests == IF user_id \in DOMAIN url1 THEN Len(url1[user_id]) ELSE 0
        rl == IsRateLimited(user_id, now, rt1, hrt1, url1)
        Tier(current, max) ==
            [current |-> current, max |-> max,
             remaining |-> IF max - current > 0 THEN max - current ELSE 0]
    IN  [rt |-> rl.rt, hrt |-> rl.hrt, url |-> rl.url,
         ret |-> [user_id |-> user_id,
                  is_rate_limited |-> rl.limited,
                  limit_reason |-> rl.reason,
                  global_minute |-> Tier(Len(rl.rt), max_requests_per_minute),
                  global_hour |-> Tier(Len(rl.hrt), max_requests_per_hour),
                  user_minute |-> Tier(user_requests,
                                       max_requests_per_user_per_minute)]]

GetRateLimitStatus(user_id) ==
    /\ request_timestamps' = RateLimitStatus(user_id).rt
    /\ hourly_request_timestamps' = RateLimitStatus(user_id).hrt
    /\ user_request_limits' = RateLimitStatus(user_id).url
    /\ reply' = [op |-> "get_rate_limit_status", user_id |-> user_id, nreq |-> nreq,
                 ret |-> RateLimitStatus(user_id).ret]
    /\ UNCHANGED <<frame, now, enabled, client, request_stats, cache, last, nreq, nticks,
                   recorded, hist, limitedAt, scen, since>>

\* reset_statistics
ResetStatistics ==
    /\ request_stats' = ZeroStats
    /\ reply' = [op |-> "reset_statistics", user_id |-> "", nreq |-> nreq,
                 ret |-> request_stats]
    /\ since' = NoPaths
    /\ UNCHANGED <<frame, now, enabled, client, request_timestamps, hourly_request_timestamps,
                   user_request_limits, cache, last, nreq, nticks, recorded, hist,
                   limitedAt, scen>>

\* time passes between two calls
Tick(d) ==
    /\ now' = now + d
    /\ nticks' = nticks + 1
    /\ UNCHANGED <<frame, enabled, client, request_timestamps, hourly_request_timestamps,
                   user_request_limits, request_stats, cache, last, nreq, nadmin,
                   recorded, hist, limitedAt, scen, reply, since>>

\* the attributes of the service
service == <<enabled, client, request_timestamps, hourly_request_timestamps,
             user_request_limits, request_stats, cache>>

\* one of the calls that take no request, when it changes an attribute of the service
Admin ==
    /\ \/ GetServiceStatus
       \/ ClearCache
       \/ \E user_id \in Users : GetRateLimitStatus(user_id)
       \/ ResetStatistics
    /\ service' # service
    /\ nadmin' = nadmin + 1

\* one of the calls that take no request, whether it changes anything or not
AnyAdmin ==
    /\ \/ GetServiceStatus
       \/ ClearCache
       \/ \E user_id \in Users : GetRateLimitStatus(user_id)
       \/ ResetStatistics
    /\ nadmin' = nadmin + 1

(* ---- the workloads ---- *)
\* upstream outcomes: a reply body, a botocore ClientError, any other exception
OkReply == [kind |-> "text", body |-> <<" ", "O", "k", "!", " ">>]
BlankReply == [kind |-> "text", body |-> <<" ">>]
ClientError == [kind |-> "ClientError", body |-> <<>>]
OtherError == [kind |-> "Exception", body |-> <<>>]

\* number of status, clear and reset calls that change something in a behaviour
MaxAdmin == 1

\* Spec: every kind of input and of upstream outcome, a few calls.
\* The calls made are <<sign, error_code, user_id>>.
Calls ==
    {<<"A", "THUMB_LOW", "u1">>, <<"", "THUMB_LOW", "u1">>, <<"A", "NOPE", "u1">>,
     <<"", "NOPE", "u1">>, <<"A", "THUMB_LOW", "u2">>}
Upstream == {OkReply, BlankReply, ClientError, OtherError}
TickSteps == {30, 60, 3600}
MaxRequests == 3
MaxTicks == 1

Next ==
    \/ /\ nreq < MaxRequests
       /\ \E c \in Calls, up \in Upstream \cup {NoCall} :
              GetFeedback(c[1], c[2], c[3], up)
    \/ /\ nadmin < MaxAdmin
       /\ Admin
    \/ /\ nticks < MaxTicks
       /\ \E d \in TickSteps : Tick(d)

Spec == Init /\ [][Next]_vars

\* SpecCache: three keys for a cache of two entries, times around the time to live
CacheCalls ==
    {<<"A", "THUMB_LOW", "u1">>, <<"", "THUMB_LOW", "u1">>, <<"A", "NOPE", "u1">>,
     <<"A", "THUMB_LOW", "u2">>}
CacheUpstream == {OkReply}
CacheSteps == {30, 60}
CacheMaxRequests == 4
CacheMaxTicks == 2

NextCache ==
    \/ /\ nreq < CacheMaxRequests
       /\ \E c \in CacheCalls, up \in CacheUpstream \cup {NoCall} :
              GetFeedback(c[1], c[2], c[3], up)
    \/ /\ nadmin < MaxAdmin
       /\ Admin
    \/ /\ nticks < CacheMaxTicks
       /\ \E d \in CacheSteps : Tick(d)

SpecCache == Init /\ [][NextCache]_vars

\* SpecQuota: two callers, times around the minute and beyond the hour
QuotaCalls ==
    {<<"A", "THUMB_LOW", "u1">>, <<"A", "NOPE", "u1">>, <<"A", "THUMB_LOW", "u2">>}
QuotaUpstream == {OkReply}
QuotaSteps == {30, 60, 3600}
QuotaMaxRequests == 4
QuotaMaxTicks == 2

NextQuota ==
    \/ /\ nreq < QuotaMaxRequests
       /\ \E c \in QuotaCalls, up \in QuotaUpstream \cup {NoCall} :
              GetFeedback(c[1], c[2], c[3], up)
    \/ /\ nadmin < MaxAdmin
       /\ Admin
    \/ /\ nticks < QuotaMaxTicks
       /\ \E d \in QuotaSteps : Tick(d)

SpecQuota == Init /\ [][NextQuota]_vars

\* SpecAdmin: status, clear and reset calls, two in a behaviour, among a few requests
AdminCalls ==
    {<<"A", "THUMB_LOW", "u1">>, <<"A", "NOPE", "u1">>, <<"A", "NOPE", "u2">>}
AdminUpstream == {OkReply, ClientError}
AdminSteps == {60}
AdminMaxRequests == 3
AdminMaxTicks == 1
AdminMaxCalls == 2

NextAdmin ==
    \/ /\ nreq < AdminMaxRequests
       /\ \E c \in AdminCalls, up \in AdminUpstream \cup {NoCall} :
              GetFeedback(c[1], c[2], c[3], up)
    \/ /\ nadmin < AdminMaxCalls
       /\ AnyAdmin
    \/ /\ nticks < AdminMaxTicks
       /\ \E d \in AdminSteps : Tick(d)

SpecAdmin == Init /\ [][NextAdmin]_vars

\* SpecOps: every path of get_feedback and every status, clear and reset call, made
\* whether or not it changes anything; two of the calls share one cache key
OpsCalls ==
    {<<"A", "THUMB_LOW", "u1">>, <<"A", "NOPE", "u2">>,
     <<"A:B", "THUMB_LOW", "u1">>, <<"A", "B:THUMB_LOW", "u2">>}
OpsUpstream == {OkReply, ClientError, OtherError}
OpsSteps == {60}
OpsMaxRequests == 4
OpsMaxTicks == 1
OpsMaxAdmin == 1

NextOps ==
    \/ /\ nreq < OpsMaxRequests
       /\ \E c \in OpsCalls, up \in OpsUpstream \cup {NoCall} :
              GetFeedback(c[1], c[2], c[3], up)
    \/ /\ nadmin < OpsMaxAdmin
       /\ AnyAdmin
    \/ /\ nticks < OpsMaxTicks
       /\ \E d \in OpsSteps : Tick(d)

SpecOps == Init /\ [][NextOps]_vars

(* ======================= get_feedback step by step ======================= *)
(* The service object holds no lock.  Below, one call of get_feedback is     *)
(* taken apart into the steps at which it reads or writes the attributes of  *)
(* the service; frame[t] is the call that thread t is running.  A step is at *)
(* most one test or one write of the cache, one call of _is_rate_limited,    *)
(* the appends of _add_request_timestamp, or one half of a counter's += 1,   *)
(* so the interleavings below are among those of the code.                   *)

\* the call has started and has neither returned nor raised
Running(f) == f.pc \notin {"idle", "returned", "raised"}

\* return response: the locals are gone, the result and the course of the call remain
Return(f) ==
    [IdleFrame EXCEPT !.pc = "returned", !.cache_key = f.cache_key,
                      !.response = f.response, !.missed = f.missed,
                      !.admitted = f.admitted, !.available = f.available,
                      !.calls = f.calls, !.overlap = f.overlap]

\* an exception raised where the call stands: inside the try block of lines 376-396 it
\* is caught by 'except Exception' (line 412), anywhere else it leaves get_feedback
Raise(f) ==
    IF f.in_try
    THEN [f EXCEPT !.pc = "load", !.site = "unexpected_error", !.in_try = FALSE,
                   !.oldest_key = NoKey]
    ELSE [Return(f) EXCEPT !.pc = "raised", !.response = NoResponse]

\* the counter incremented at each site of get_feedback
Counter(site) ==
    CASE site = "cached" -> "cached_requests"
      [] site = "rate_limited" -> "rate_limited_requests"
      [] site = "total" -> "total_requests"
      [] site = "bedrock" -> "bedrock_requests"
      [] OTHER -> "fallback_requests"

\* the FeedbackResponse built at each site of get_feedback
ResponseAt(f) ==
    CASE f.site = "rate_limited" ->
             FeedbackResponse(TRUE, FallbackFor(f.error_code), f.error_code, f.sign,
                              f.timestamp, "fallback_rate_limited_" \o f.limit_reason)
      [] f.site = "disabled" ->
             FeedbackResponse(TRUE, FallbackFor(f.error_code), f.error_code, f.sign,
                              f.timestamp, "fallback")
      [] f.site = "bedrock" ->
             FeedbackResponse(TRUE, f.feedback_text, f.error_code, f.sign,
                              f.timestamp, "bedrock")
      [] f.site = "client_error" ->
             FeedbackResponse(FALSE, FallbackFor(f.error_code), f.error_code, f.sign,
                              f.timestamp, "fallback_bedrock_error")
      [] OTHER ->
             FeedbackResponse(FALSE, FallbackFor(f.error_code), f.error_code, f.sign,
                              f.timestamp, "fallback_unexpected_error")

\* self.cache[cache_key] = {'response': response, 'timestamp': datetime.now()}
CachePut(c, cache_key, response, t) ==
    LET i == CacheIndex(c, cache_key)
        item == [key |-> cache_key, response |-> response, timestamp |-> t]
    IN  IF i = 0 THEN Append(c, item) ELSE [c EXCEPT ![i] = item]

\* the stored object is the one the thread holds: the same entry but for the flag
SameObject(item, cached_item) ==
    [item EXCEPT !.response.cached = FALSE]
        = [cached_item EXCEPT !.response.cached = FALSE]

\* what the steps of get_feedback leave alone besides the service
history == <<last, nadmin, recorded, hist, limitedAt, scen, reply, since>>
windows == <<request_timestamps, hourly_request_timestamps, user_request_limits>>

\* the first of the threads that run no call takes the next one
\* thread t enters get_feedback(sign, error_code, user_id): lines 330 and 333
Begin(t, sign, error_code, user_id) ==
    /\ ~Running(frame[t])
    /\ \A q \in Threads : q < t => Running(frame[q])
    /\ frame' = [q \in Threads |->
                   IF q = t
                   THEN [IdleFrame EXCEPT
                            !.pc = "lookup", !.sign = sign, !.error_code = error_code,
                            !.user_id = user_id, !.timestamp = now,
                            !.cache_key = GenerateCacheKey(sign, error_code),
                            !.overlap = {r \in Threads \ {t} : Running(frame[r])}]
                   ELSE IF Running(frame[q])
                   THEN [frame[q] EXCEPT !.overlap = @ \cup {t}]
                   ELSE frame[q]]
    /\ nreq' = nreq + 1
    /\ UNCHANGED <<now, enabled, client, windows, request_stats, cache, history, nticks>>

\* if cache_key not in self.cache: return None
Lookup(t) ==
    LET f == frame[t]
        absent == CacheIndex(cache, f.cache_key) = 0
    IN  /\ f.pc = "lookup"
        /\ frame' = [frame EXCEPT ![t] =
                        [f EXCEPT !.pc = IF absent THEN "is_rate_limited"
                                         ELSE "cached_item",
                                  !.missed = absent]]
        /\ UNCHANGED <<now, enabled, client, windows, request_stats, cache, history,
                       nreq, nticks>>

\* cached_item = self.cache[cache_key]: KeyError when the key is gone
CachedItem(t) ==
    LET f == frame[t]
        i == CacheIndex(cache, f.cache_key)
    IN  /\ f.pc = "cached_item"
        /\ frame' = [frame EXCEPT ![t] =
                        IF i = 0 THEN Raise(f)
                        ELSE [f EXCEPT !.pc = "expiry", !.cached_item = cache[i]]]
        /\ UNCHANGED <<now, enabled, client, windows, request_stats, cache, history,
                       nreq, nticks>>

\* the test of line 254 with what follows it: del self.cache[cache_key] (KeyError when
\* the key is gone) and a miss, or response.cached = True on the object held
Expiry(t) ==
    LET f == frame[t]
        i == CacheIndex(cache, f.cache_key)
    IN  /\ f.pc = "expiry"
        /\ IF Expired(now, f.cached_item.timestamp)
           THEN /\ frame' = [frame EXCEPT ![t] =
                               IF i = 0 THEN Raise(f)
                               ELSE [f EXCEPT !.pc = "is_rate_limited",
                                              !.cached_item = NoItem,
                                              !.missed = TRUE]]
                /\ cache' = IF i = 0 THEN cache ELSE CacheDelete(cache, i)
           ELSE /\ frame' = [frame EXCEPT ![t] =
                               [f EXCEPT !.pc = "load", !.site = "cached",
                                         !.cached_item = NoItem,
                                         !.response = [f.cached_item.response
                                                          EXCEPT !.cached = TRUE]]]
                /\ cache' = IF i # 0 /\ SameObject(cache[i], f.cached_item)
                            THEN [cache EXCEPT ![i].response.cached = TRUE]
                            ELSE cache
        /\ UNCHANGED <<now, enabled, client, windows, request_stats, history, nreq,
                       nticks>>

\* the first half of self.request_stats[...] += 1: the counter is read
Load(t) ==
    LET f == frame[t]
    IN  /\ f.pc = "load"
        /\ frame' = [frame EXCEPT ![t] =
                        [f EXCEPT !.pc = "add",
                                  !.loaded = request_stats[Counter(f.site)]]]
        /\ UNCHANGED <<now, enabled, client, windows, request_stats, cache, history,
                       nreq, nticks>>

\* the second half: the value read, plus one, is written; then the call goes on from
\* the site of the increment
Add(t) ==
    LET f == frame[t]
    IN  /\ f.pc = "add"
        /\ request_stats' = [request_stats EXCEPT ![Counter(f.site)] = f.loaded + 1]
        /\ frame' = [frame EXCEPT ![t] =
                        IF f.site = "cached" THEN Return(f)
                        ELSE IF f.site = "total"
                        THEN [f EXCEPT !.pc = "enabled", !.loaded = 0]
                        ELSE [f EXCEPT !.pc = "capacity", !.loaded = 0,
                                       !.limit_reason = "", !.feedback_text = "",
                                       !.response = ResponseAt(f)]]
        /\ UNCHANGED <<now, enabled, client, windows, cache, history, nreq, nticks>>

\* is_limited, limit_reason = self._is_rate_limited(user_id)
CheckRateLimit(t) ==
    LET f == frame[t]
        rl == IsRateLimited(f.user_id, now, request_timestamps,
                            hourly_request_timestamps, user_request_limits)
    IN  /\ f.pc = "is_rate_limited"
        /\ request_timestamps' = rl.rt
        /\ hourly_request_timestamps' = rl.hrt
        /\ user_request_limits' = rl.url
        /\ frame' = [frame EXCEPT ![t] =
                        IF rl.limited
                        THEN [f EXCEPT !.pc = "load", !.site = "rate_limited",
                                       !.limit_reason = rl.reason]
                        ELSE [f EXCEPT !.pc = "add_request_timestamp",
                                       !.admitted = TRUE]]
        /\ UNCHANGED <<now, enabled, client, request_stats, cache, history, nreq,
                       nticks>>

\* self._add_request_timestamp(user_id), up to its counter
RecordRequest(t) ==
    LET f == frame[t]
        add == AddRequestTimestamp(f.user_id, now, request_timestamps,
                                   hourly_request_timestamps, user_request_limits,
                                   request_stats)
    IN  /\ f.pc = "add_request_timestamp"
        /\ request_timestamps' = add.rt
        /\ hourly_request_timestamps' = add.hrt
        /\ user_request_limits' = add.url
        /\ recorded' = Append(recorded, <<f.user_id, now>>)
        /\ frame' = [frame EXCEPT ![t] = [f EXCEPT !.pc = "load", !.site = "total"]]
        /\ UNCHANGED <<now, enabled, client, request_stats, cache, last, nadmin, hist,
                       limitedAt, scen, reply, since, nreq, nticks>>

\* fault: the upstream is always taken to be available
UnavailableNever(en, cl) == FALSE

\* if not self.enabled or not self.client
Unavailable(en, cl) == ~en \/ ~cl

\* the test of line 362; the try block is entered when the upstream is available
EnabledTest(t) ==
    LET f == frame[t]
    IN  /\ f.pc = "enabled"
        /\ frame' = [frame EXCEPT ![t] =
                        IF Unavailable(enabled, client)
                        THEN [f EXCEPT !.pc = "load", !.site = "disabled"]
                        ELSE [f EXCEPT !.pc = "call_bedrock", !.in_try = TRUE,
                                       !.available = enabled /\ client]]
        /\ UNCHANGED <<now, enabled, client, windows, request_stats, cache, history,
                       nreq, nticks>>

\* feedback_text = self._call_bedrock(prompt), the upstream doing up
CallBedrock(t, up) ==
    LET f == frame[t]
    IN  /\ f.pc = "call_bedrock"
        /\ frame' = [frame EXCEPT ![t] =
                        IF up.kind = "text"
                        THEN [f EXCEPT !.pc = "load", !.site = "bedrock",
                                       !.calls = @ + 1,
                                       !.feedback_text = Strip(up.body)]
                        ELSE [f EXCEPT !.pc = "load", !.calls = @ + 1,
                                       !.in_try = FALSE,
                                       !.site = IF up.kind = "ClientError"
                                                THEN "client_error"
                                                ELSE "unexpected_error"]]
        /\ UNCHANGED <<now, enabled, client, windows, request_stats, cache, history,
                       nreq, nticks>>

\* if len(self.cache) >= self.max_cache_size
Capacity(t) ==
    LET f == frame[t]
    IN  /\ f.pc = "capacity"
        /\ frame' = [frame EXCEPT ![t] =
                        [f EXCEPT !.pc = IF AtCapacity(Len(cache)) THEN "oldest"
                                         ELSE "store"]]
        /\ UNCHANGED <<now, enabled, client, windows, request_stats, cache, history,
                       nreq, nticks>>

\* oldest_key = min(self.cache.keys(), ...): ValueError when the cache is empty
Oldest(t) ==
    LET f == frame[t]
    IN  /\ f.pc = "oldest"
        /\ frame' = [frame EXCEPT ![t] =
                        IF cache = <<>> THEN Raise(f)
                        ELSE [f EXCEPT !.pc = "evict",
                                       !.oldest_key = cache[OldestIndex(cache)].key]]
        /\ UNCHANGED <<now, enabled, client, windows, request_stats, cache, history,
                       nreq, nticks>>

\* del self.cache[oldest_key]: KeyError when the key is gone
Evict(t) ==
    LET f == frame[t]
        i == CacheIndex(cache, f.oldest_key)
    IN  /\ f.pc = "evict"
        /\ frame' = [frame EXCEPT ![t] =
                        IF i = 0 THEN Raise(f)
                        ELSE [f EXCEPT !.pc = "store", !.oldest_key = NoKey]]
        /\ cache' = IF i = 0 THEN cache ELSE CacheDelete(cache, i)
        /\ UNCHANGED <<now, enabled, client, windows, request_stats, history, nreq,
                       nticks>>

\* the assignment of lines 271-274, and return response
Store(t) ==
    LET f == frame[t]
    IN  /\ f.pc = "store"
        /\ cache' = CachePut(cache, f.cache_key, f.response, now)
        /\ frame' = [frame EXCEPT ![t] = Return(f)]
        /\ UNCHANGED <<now, enabled, client, windows, request_stats, history, nreq,
                       nticks>>

\* thread t takes the next step of its call
Step(t, upstream) ==
    \/ Lookup(t)
    \/ CachedItem(t)
    \/ Expiry(t)
    \/ Load(t)
    \/ Add(t)
    \/ CheckRateLimit(t)
    \/ RecordRequest(t)
    \/ EnabledTest(t)
    \/ \E up \in upstream : CallBedrock(t, up)
    \/ Capacity(t)
    \/ Oldest(t)
    \/ Evict(t)
    \/ Store(t)

\* SpecSteps: the calls as main.py makes them.  Its handlers are coroutines of one event
\* loop and get_feedback never awaits, so a call runs to its end before the next starts,
\* and a call that has started takes its next step.
StepsCalls ==
    {<<"A", "THUMB_LOW", "u1">>, <<"B", "NOPE", "u1">>, <<"C", "THUMB_LOW", "u2">>}
StepsUpstream == {OkReply, ClientError, OtherError}
StepsTicks == {120}
StepsMaxRequests == 3
StepsMaxTicks == 1

NextSteps ==
    \/ /\ nreq < StepsMaxRequests
       /\ \A q \in Threads : ~Running(frame[q])
       /\ \E t \in Threads, c \in StepsCalls : Begin(t, c[1], c[2], c[3])
    \/ \E t \in Threads : Step(t, StepsUpstream)
    \/ /\ nticks < StepsMaxTicks
       /\ \E d \in StepsTicks : Tick(d)

SpecSteps ==
    Init /\ [][NextSteps]_vars /\ WF_vars(\E t \in Threads : Step(t, StepsUpstream))

\* SpecRace: the calls made from two threads at once, every step of one free to fall
\* between two steps of the other.
RaceCalls == {<<"A", "THUMB_LOW", "u1">>, <<"B", "NOPE", "u1">>}
RaceUpstream == {OkReply, ClientError}
RaceTicks == {120}
RaceMaxRequests == 3
RaceMaxTicks == 1

NextRace ==
    \/ /\ nreq < RaceMaxRequests
       /\ \E t \in Threads, c \in RaceCalls : Begin(t, c[1], c[2], c[3])
    \/ \E t \in Threads : Step(t, RaceUpstream)
    \/ /\ nticks < RaceMaxTicks
       /\ \E d \in RaceTicks : Tick(d)

SpecRace == Init /\ [][NextRace]_vars

(* ======================= the claims ======================= *)
IsRequest == last.op = "get_feedback"
IsMiss == IsRequest /\ last.path # "cached"
LastKey == GenerateCacheKey(last.sign, last.error_code)
UserMinuteTag == "fallback_rate_limited_user_minute_limit"

\* what _is_rate_limited answers for a caller in the current state
Admit(user_id) ==
    IsRateLimited(user_id, now, request_timestamps, hourly_request_timestamps,
                  user_request_limits)

\* the instants at which a window can hold the most: a window that ends at any other
\* instant holds no more than the one that ends at the latest recording before it
Instants == {recorded[i][2] : i \in DOMAIN recorded} \cup {now}

\* C1: after any sequence of calls at non-decreasing times, the requests recorded within
\* the minute ending at any instant number at most the global per-minute ceiling, those
\* within the hour ending there at most the per-hour ceiling, and those of any one
\* caller within that minute at most the per-caller ceiling.
C1_QuotaSafety ==
    \A t \in Instants :
        /\ GlobalCount(t, MinuteWindow) <= max_requests_per_minute
        /\ GlobalCount(t, HourWindow) <= max_requests_per_hour
        /\ \A u \in Users :
               UserCount(u, t, MinuteWindow) <= max_requests_per_user_per_minute

\* a request was turned away while the hour holds exactly its ceiling of recordings
C1_Witness ==
    /\ IsRequest /\ last.path = "rate_limited" /\ last.at = now
    /\ GlobalCount(now, HourWindow) = max_requests_per_hour
    /\ \E u \in Users : UserCount(u, now, MinuteWindow) = max_requests_per_user_per_minute

\* the first tier at its ceiling in the order minute, hour, caller, counted on the history
Tiering(user_id) ==
    IF GlobalCount(now, MinuteWindow) >= max_requests_per_minute
    THEN "global_minute_limit"
    ELSE IF GlobalCount(now, HourWindow) >= max_requests_per_hour
    THEN "global_hour_limit"
    ELSE IF UserCount(user_id, now, MinuteWindow) >= max_requests_per_user_per_minute
    THEN "user_minute_limit"
    ELSE ""

\* C7: the admission check reports the first tier at its ceiling in the order global
\* minute, global hour, caller minute, and admits exactly when no tier is at its ceiling.
C7_TieringOrder ==
    \A u \in Users :
        /\ Admit(u).reason = Tiering(u)
        /\ Admit(u).limited = (Tiering(u) # "")

\* a caller at its own ceiling was turned away for the hour, the minute tier being free
C7_Witness ==
    /\ IsRequest /\ last.reason = "global_hour_limit" /\ last.at = now
    /\ UserCount(last.user_id, now, MinuteWindow) >= max_requests_per_user_per_minute
    /\ GlobalCount(now, MinuteWindow) < max_requests_per_minute

\* C8: a caller once denied for its own minute tier is no longer denied for that tier
\* once a minute has passed since all its recorded requests; it is admitted unless a
\* global tier is at its ceiling.
C8_QuotaRecovery ==
    \A u \in DOMAIN limitedAt :
        UserCount(u, now, MinuteWindow) = 0 =>
            /\ Admit(u).reason # "user_minute_limit"
            /\ GlobalsFree(now) => ~Admit(u).limited

\* a caller denied for its minute tier earlier has just been admitted again
C8_Witness ==
    /\ IsMiss /\ last.path # "rate_limited" /\ last.at = now
    /\ last.user_id \in DOMAIN limitedAt
    /\ limitedAt[last.user_id] < now

\* C10 as stated: in a run started with an empty cache, no request of the caller in the
\* last minute and the global tiers below their ceilings, the caller's first
\* max_requests_per_user_per_minute misses are not rejected and the next one is rejected
\* for the caller's minute tier.
C10_Original ==
    (IsMiss /\ scen[last.user_id].active) =>
        /\ scen[last.user_id].n <= max_requests_per_user_per_minute
               => last.path # "rate_limited"
        /\ scen[last.user_id].n = max_requests_per_user_per_minute + 1
               => last.response.source = UserMinuteTag

\* C10 amended: the same, provided the global tiers are below their ceilings when each
\* of these requests is made.
C10_UserExhaustion ==
    (IsMiss /\ scen[last.user_id].active /\ scen[last.user_id].g) =>
        /\ scen[last.user_id].n <= max_requests_per_user_per_minute
               => last.path # "rate_limited"
        /\ scen[last.user_id].n = max_requests_per_user_per_minute + 1
               => last.response.source = UserMinuteTag

\* the request after the caller's last admitted one was rejected for the caller's tier
C10_Witness ==
    /\ IsMiss /\ scen[last.user_id].active /\ scen[last.user_id].g
    /\ scen[last.user_id].n = max_requests_per_user_per_minute + 1
    /\ last.response.source = UserMinuteTag

(* ---- the cache claims ---- *)
\* the step is one call of get_feedback
Request == nreq' = nreq + 1
\* the key the call of this step asks for
AskedKey == GenerateCacheKey(last'.sign, last'.error_code)
Keys(c) == {c[i].key : i \in DOMAIN c}
Entry(c, cache_key) == c[CacheIndex(c, cache_key)]

\* the call of this step returns what the latest miss for its key stored
SameAsStored ==
    /\ last'.response.cached
    /\ last'.response.feedback = hist[AskedKey].feedback
    /\ last'.response.source = hist[AskedKey].source

\* C2 as stated: a call for a key made within the time to live after an earlier call for
\* that key resolved, with no clear_cache in between and whatever calls for other keys
\* in between, returns the same message and origin, served from the cache.
C2_Original ==
    [][(Request /\ AskedKey \in DOMAIN hist
            /\ now - hist[AskedKey].at <= cache_ttl_seconds)
           => SameAsStored]_vars

\* C2 amended: the same, provided fewer than max_cache_size cache-missing calls for
\* other keys were served in between.
C2_CacheDeterminism ==
    [][(Request /\ AskedKey \in DOMAIN hist
            /\ now - hist[AskedKey].at <= cache_ttl_seconds
            /\ hist[AskedKey].others < max_cache_size)
           => SameAsStored]_vars

\* another caller was served from the cache after a miss for another key came between
C2_Witness ==
    /\ IsRequest /\ last.path = "cached"
    /\ LastKey \in DOMAIN hist
    /\ hist[LastKey].by # last.user_id
    /\ hist[LastKey].others >= 1
    /\ last.response.source = "bedrock"

\* C3: a call for a key the cache does not hold returns cached = false; the same call
\* repeated at once returns cached = true with the same message; a call for another
\* key the cache does not hold returns cached = false.
C3_ImmediateRepeat ==
    [][Request =>
        /\ CacheIndex(cache, AskedKey) = 0 => ~last'.response.cached
        /\ (/\ IsMiss /\ last.at = now /\ LastKey = AskedKey
            /\ last.user_id = last'.user_id /\ AskedKey \in DOMAIN hist)
               => /\ last'.response.cached
                  /\ last'.response.feedback = last.response.feedback]_vars

\* the call that stored a result has just been repeated at once and served from the cache
C3_Witness ==
    /\ IsRequest /\ last.path = "cached" /\ last.at = now
    /\ LastKey \in DOMAIN hist
    /\ hist[LastKey].at = now /\ hist[LastKey].by = last.user_id
    /\ hist[LastKey].others = 0

\* C4: a lookup of an entry stored more than cache_ttl_seconds ago deletes it and the
\* request is recomputed, its result stored afresh; a lookup of an entry of age at most
\* cache_ttl_seconds, that age included, is a hit and leaves the entry's time as it was.
C4_TtlExpiry ==
    [][(Request /\ CacheIndex(cache, AskedKey) # 0) =>
        IF now - Entry(cache, AskedKey).timestamp > cache_ttl_seconds
        THEN /\ last'.path \in {"rate_limited", "disabled", "bedrock", "client_error",
                                "unexpected_error"}
             /\ ~last'.response.cached
             /\ CacheIndex(cache', AskedKey) # 0
             /\ Entry(cache', AskedKey).timestamp = now
        ELSE /\ last'.path = "cached"
             /\ Keys(cache') = Keys(cache)
             /\ Entry(cache', AskedKey).timestamp = Entry(cache, AskedKey).timestamp]_vars

\* an entry was found expired although it had been served less than cache_ttl_seconds
\* before
C4_Witness ==
    /\ IsRequest /\ last.expired /\ last.at = now
    /\ request_stats.cached_requests >= 1
    /\ nticks = 2

C6_CacheBound ==
    /\ Len(cache) <= max_cache_size
    /\ \A i, j \in DOMAIN cache : cache[i].key = cache[j].key => i = j

\* the cache is full after more keys were stored than it can hold
C6_Witness ==
    /\ Len(cache) = max_cache_size
    /\ Cardinality(DOMAIN hist) > max_cache_size

\* C9: every call of get_feedback returns a result with a non-empty message and raises
\* nothing, whatever the sign, the error code and the upstream outcome.
C9_Totality ==
    IsRequest => (~last.raised /\ last.response.feedback # "")

(* ---- the claims about the paths of get_feedback ---- *)
\* the upstream is disabled or its client is missing
Disabled == ~enabled \/ ~client
\* the sources of the replies to denied requests
RateLimitedTag(reason) == "fallback_rate_limited_" \o reason
Tags == {RateLimitedTag(reason) :
            reason \in {"global_minute_limit", "global_hour_limit", "user_minute_limit"}}
\* the message the catalog holds for a code, the generic one for a code it does not hold
CatalogMessage(error_code) ==
    IF error_code \in DOMAIN fallback_messages
    THEN fallback_messages[error_code]
    ELSE "Keep practicing - you're doing great!"
\* the call of this step finds a live entry under its key
Hits ==
    /\ CacheIndex(cache, AskedKey) # 0
    /\ now - Entry(cache, AskedKey).timestamp <= cache_ttl_seconds

\* C11 as stated: with the upstream disabled or its client missing, every call returns
\* source fallback, success true and the catalog's message for its error code.
C11_Original ==
    (IsRequest /\ Disabled) =>
        /\ last.response.source = "fallback"
        /\ last.response.success
        /\ last.response.feedback = CatalogMessage(last.error_code)

\* C11 amended: with the upstream disabled or its client missing, every call returns
\* success true; a call that misses the cache returns the catalog's message for its
\* error code, with source fallback if no tier is at its ceiling and with the tag of the
\* first tier at its ceiling otherwise; a call that hits returns the stored result of
\* such a call.
C11_DisabledFallback ==
    [][(Request /\ Disabled) =>
        /\ last'.response.success
        /\ last'.response.feedback = CatalogMessage(last'.response.error_code)
        /\ last'.response.source \in {"fallback"} \cup Tags
        /\ IF Hits
           THEN last'.response = [Entry(cache, AskedKey).response EXCEPT !.cached = TRUE]
           ELSE /\ last'.response.error_code = last'.error_code
                /\ last'.response.source =
                       IF Tiering(last'.user_id) = "" THEN "fallback"
                       ELSE RateLimitedTag(Tiering(last'.user_id))]_vars

\* with the upstream disabled, a request was denied and a later one was served a
\* fallback from the cache
C11_Witness ==
    /\ Disabled /\ IsRequest
    /\ last.path = "cached" /\ last.response.source = "fallback"
    /\ since["rate_limited"] >= 1 /\ since["disabled"] >= 2

\* the sum of the five counters
Total(stats) ==
    stats.total_requests + stats.bedrock_requests + stats.fallback_requests
        + stats.cached_requests + stats.rate_limited_requests
\* the number of increments the step makes
Increments == Total(request_stats') - Total(request_stats)
\* the keys the step writes: those whose entry is new
Written ==
    {k \in Keys(cache') :
        k \notin Keys(cache) \/ Entry(cache', k).timestamp # Entry(cache, k).timestamp}
\* the call of this step returns one result and raises nothing
OneResult ==
    /\ ~last'.raised
    /\ DOMAIN last'.response =
           {"success", "feedback", "error_code", "sign", "timestamp", "source", "cached"}

\* C12 as stated: every call of get_feedback returns one result, writes the cache once
\* and increments one counter once.
C12_Original ==
    [][Request => (OneResult /\ Cardinality(Written) = 1 /\ Increments = 1)]_vars

\* C12 amended: every call returns one result; a hit writes nothing to the cache and
\* increments one counter; a denied request writes the cache once and increments one
\* counter; an admitted request writes the cache once and increments two counters.
C12_OnePerPath ==
    [][Request =>
        /\ OneResult
        /\ IF Hits
           THEN Written = {} /\ Increments = 1
           ELSE /\ Written = {AskedKey}
                /\ Entry(cache', AskedKey).response = last'.response
                /\ Increments = IF Tiering(last'.user_id) # "" THEN 1 ELSE 2]_vars

\* every kind of path has been taken, the latest a failed upstream call
C12_Witness ==
    /\ IsRequest /\ last.path = "client_error"
    /\ since["cached"] >= 1 /\ since["rate_limited"] >= 1 /\ since["bedrock"] >= 1

\* C13: a request that misses the cache while a tier is at its ceiling returns success
\* true, the source tagged with the first such tier and the catalog's message for its
\* error code; the result is stored under its key, the rate limited counter alone is
\* incremented and the upstream is not called.
C13_DenialDegrades ==
    [][(Request /\ ~Hits /\ Tiering(last'.user_id) # "") =>
        /\ last'.response.success
        /\ last'.response.source = RateLimitedTag(Tiering(last'.user_id))
        /\ last'.response.feedback = CatalogMessage(last'.error_code)
        /\ AskedKey \in Keys(cache')
        /\ Entry(cache', AskedKey).response = last'.response
        /\ request_stats' = [request_stats EXCEPT !.rate_limited_requests = @ + 1]
        /\ ~last'.called]_vars

\* a request was denied for the hour's ceiling and its reply stored
C13_Witness ==
    /\ IsRequest /\ last.path = "rate_limited"
    /\ last.response.source = RateLimitedTag("global_hour_limit")
    /\ since["rate_limited"] >= 1
    /\ LastKey \in Keys(cache)

\* the upstream call of this step failed
Failed == last'.called /\ last'.path \in {"client_error", "unexpected_error"}
\* what a failed call does apart from the source it reports
FailureHandled ==
    /\ ~last'.raised
    /\ ~last'.response.success
    /\ last'.response.feedback = CatalogMessage(last'.error_code)
    /\ AskedKey \in Keys(cache')
    /\ Entry(cache', AskedKey).response = last'.response
    /\ request_stats'.fallback_requests = request_stats.fallback_requests + 1
    /\ request_stats'.bedrock_requests = request_stats.bedrock_requests

Called(op) == nadmin' = nadmin + 1 /\ reply'.op = op
\* the quota windows
Windows == <<request_timestamps, hourly_request_timestamps, user_request_limits>>
\* the counters that count exactly the calls of get_feedback tallied in s
Tally(s) ==
    [total_requests |->
         s["disabled"] + s["bedrock"] + s["client_error"] + s["unexpected_error"],
     bedrock_requests |-> s["bedrock"],
     fallback_requests |-> s["disabled"] + s["client_error"] + s["unexpected_error"],
     cached_requests |-> s["cached"],
     rate_limited_requests |-> s["rate_limited"]]

\* C15: reset_statistics returns the counters as they were and sets the five of them
\* to zero, leaving the cache and the quota windows as they were; afterwards the
\* counters, and the statistics get_service_status reports, count exactly the requests
\* made since; what reset_statistics returned is not changed by later requests.
C15_ResetStatistics ==
    [][/\ Called("reset_statistics") =>
              /\ reply'.ret = request_stats
              /\ DOMAIN request_stats' = DOMAIN request_stats
              /\ \A k \in DOMAIN request_stats' : request_stats'[k] = 0
              /\ cache' = cache
              /\ Windows' = Windows
       /\ request_stats' = Tally(since')
       /\ Called("get_service_status") => reply'.ret.statistics = Tally(since)
       /\ (Request /\ reply.op = "reset_statistics") => reply'.ret = reply.ret]_vars

\* counters were reset when they were not zero, requests followed, and the statistics
\* then read count these alone
C15_Witness ==
    /\ reply.op = "get_service_status"
    /\ nadmin = 2 /\ nreq = 3 /\ reply.nreq = nreq
    /\ Total(reply.ret.statistics) \in 1..2
    /\ reply.ret.statistics = request_stats

\* no call of get_feedback was made since the latest clear_cache
JustCleared == reply.op = "clear_cache" /\ reply.nreq = nreq

\* C16: clear_cache removes every entry and returns how many there were, leaving the
\* quota windows and the counters as they were; the next call of get_feedback, whatever
\* its key, misses the cache, and is denied if a tier was at its ceiling before the clear.
C16_ClearCache ==
    [][/\ Called("clear_cache") =>
              /\ cache' = <<>>
              /\ reply'.ret = Len(cache)
              /\ Windows' = Windows
              /\ request_stats' = request_stats
       /\ (Request /\ JustCleared) =>
              /\ ~last'.response.cached
              /\ request_stats'.cached_requests = request_stats.cached_requests
              /\ Tiering(last'.user_id) # "" =>
                     last'.response.source = RateLimitedTag(Tiering(last'.user_id))]_vars

\* a cache that held entries was cleared and the next request was denied for requests
\* recorded before the clear
C16_Witness ==
    /\ IsRequest /\ last.path = "rate_limited"
    /\ reply.op = "clear_cache" /\ reply.ret >= 1 /\ reply.nreq = nreq - 1
    /\ \E i \in DOMAIN recorded : recorded[i][1] = last.user_id

\* C17: get_rate_limit_status changes nothing: the callers tracked, the quota windows,
\* the cache and the counters are after the call what they were before it.
C17_StatusReadOnly ==
    [][Called("get_rate_limit_status") =>
        /\ DOMAIN user_request_limits' = DOMAIN user_request_limits
        /\ Windows' = Windows
        /\ cache' = cache
        /\ request_stats' = request_stats]_vars

(* ---- the claim about the catalog ---- *)
\* the paths that answer with a message of the catalog
FallbackPaths == {"rate_limited", "disabled", "client_error", "unexpected_error"}

\* C18: the codes that have a prompt are the codes that have a fallback message, there
\* are at least 20 of them, and a code outside the catalog gets the generic message.
C18_CatalogCoverage ==
    /\ DOMAIN error_prompts = DOMAIN fallback_messages
    /\ Cardinality(DOMAIN error_prompts) >= 20
    /\ \A c \in OpsCalls :
           c[2] \notin DOMAIN fallback_messages =>
               FallbackFor(c[2]) = "Keep practicing - you're doing great!"
    /\ (IsRequest /\ last.path \in FallbackPaths) =>
           last.response.feedback =
               IF last.error_code \in DOMAIN error_prompts
               THEN fallback_messages[last.error_code]
               ELSE "Keep practicing - you're doing great!"

\* a request for a code outside the catalog was answered with the generic message
\* after one for a code of the catalog was answered with that code's message
C18_Witness ==
    /\ IsRequest /\ last.path \in FallbackPaths
    /\ last.error_code \notin DOMAIN fallback_messages
    /\ last.response.feedback = "Keep practicing - you're doing great!"
    /\ \E i \in DOMAIN cache :
           /\ cache[i].response.error_code \in DOMAIN fallback_messages
           /\ cache[i].response.source # "bedrock"
           /\ cache[i].response.feedback = fallback_messages[cache[i].response.error_code]

(* ---- the claims about the recording of requests ---- *)
\* new is old without some of its oldest timestamps: nothing was appended
NoAppend(old, new) ==
    /\ Len(new) <= Len(old)
    /\ new = SubSeq(old, Len(old) - Len(new) + 1, Len(old))
\* new is old without some of its oldest timestamps and with now appended once; n is
\* the number of requests recorded in the window before
OneAppend(old, new, n) ==
    /\ Len(new) = n + 1
    /\ new[Len(new)] = now
    /\ NoAppend(old, SubSeq(new, 1, Len(new) - 1))
\* the list of a caller, empty for a caller not tracked
ListOf(url, user_id) == IF user_id \in DOMAIN url THEN url[user_id] ELSE <<>>
\* the step appends nothing to any list
NothingRecorded ==
    /\ NoAppend(request_timestamps, request_timestamps')
    /\ NoAppend(hourly_request_timestamps, hourly_request_timestamps')
    /\ \A u \in Users :
           NoAppend(ListOf(user_request_limits, u), ListOf(user_request_limits', u))
\* the step appends now once to the minute's list, the hour's and the caller's own
RecordedOnce(user_id) ==
    /\ OneAppend(request_timestamps, request_timestamps',
                 GlobalCount(now, MinuteWindow))
    /\ OneAppend(hourly_request_timestamps, hourly_request_timestamps',
                 GlobalCount(now, HourWindow))
    /\ OneAppend(ListOf(user_request_limits, user_id),
                 ListOf(user_request_limits', user_id),
                 UserCount(user_id, now, MinuteWindow))
    /\ \A u \in Users \ {user_id} :
           NoAppend(ListOf(user_request_limits, u), ListOf(user_request_limits', u))

\* C19: a hit and a denied request append no timestamp to any list; an admitted
\* request, whatever becomes of its upstream call, appends one timestamp to the
\* minute's list, one to the hour's and one to its own caller's, and none to another
\* caller's.
C19_RecordedOnce ==
    [][Request =>
        IF Hits \/ Tiering(last'.user_id) # ""
        THEN NothingRecorded
        ELSE RecordedOnce(last'.user_id)]_vars

\* a request whose upstream call failed was recorded after the requests of the minute
\* before had left the minute's list
C19_Witness ==
    /\ IsRequest /\ last.path = "client_error"
    /\ Len(recorded) >= 2
    /\ Len(request_timestamps) = 1
    /\ Len(hourly_request_timestamps) = Len(recorded)

\* the call of this step misses the cache, is admitted and finds the upstream disabled
DisabledStop == Request /\ ~Hits /\ Tiering(last'.user_id) = "" /\ Disabled

\* C20 as stated: a request that ends at the test for a disabled upstream appends
\* nothing to any list.
C20_Original == [][DisabledStop => NothingRecorded]_vars

\* C20 amended: a request goes through the cache lookup, the quota check, the
\* recording, the test for a disabled upstream and the upstream call, in this order and
\* ending at the first that answers it; a request that ends at the test for a disabled
\* upstream has appended one timestamp to the minute's list, one to the hour's and one
\* to its own caller's.
C20_RecordBeforeDisabledCheck ==
    [][Request =>
        /\ last'.response.cached = Hits
        /\ ~Hits => (last'.response.source \in Tags <=> Tiering(last'.user_id) # "")
        /\ (~Hits /\ Tiering(last'.user_id) = "") =>
               /\ RecordedOnce(last'.user_id)
               /\ last'.response.source = "fallback" <=> Disabled
               /\ last'.called <=> ~Disabled
        /\ (Hits \/ Tiering(last'.user_id) # "") =>
               (NothingRecorded /\ ~last'.called)]_vars

\* with the upstream disabled, a request ended at the test for it and was recorded,
\* after a minute in which another had been
C20_Witness ==
    /\ Disabled /\ IsRequest /\ last.path = "disabled"
    /\ last.response.source = "fallback"
    /\ now >= MinuteWindow /\ last.at = now
    /\ Len(recorded) >= 2 /\ recorded[Len(recorded)] = <<last.user_id, now>>

(* ---- the claims about sharing, identity and accounting ---- *)
\* C21: once a caller's request for a key was denied and its fallback stored, a request
\* for that key by any caller (another one whose own quota would admit it, or the same
\* one after its window lapsed), made within the time to live while the entry is still
\* in the cache, is served from the cache with the denied caller's origin tag and
\* cached = true, calls no upstream and leaves every quota window as it was.
C21_CrossCallerReuse ==
    [][(/\ Request
        /\ AskedKey \in DOMAIN hist
        /\ hist[AskedKey].source \in Tags
        /\ now - hist[AskedKey].at <= cache_ttl_seconds
        /\ CacheIndex(cache, AskedKey) # 0)
           => /\ last'.path = "cached"
              /\ last'.response.cached
              /\ last'.response.source = hist[AskedKey].source
              /\ last'.response.feedback = hist[AskedKey].feedback
              /\ ~last'.called
              /\ Windows' = Windows
              /\ recorded' = recorded]_vars

\* a caller with no request in any window, whom the quota check would admit, has just
\* been served the fallback stored when another caller was denied
C21_Witness ==
    /\ IsRequest /\ last.path = "cached" /\ last.at = now
    /\ last.response.source \in Tags
    /\ LastKey \in DOMAIN hist
    /\ hist[LastKey].by # last.user_id
    /\ hist[LastKey].source = last.response.source
    /\ ~Admit(last.user_id).limited
    /\ UserCount(last.user_id, now, MinuteWindow) = 0

\* C22: a call served from the cache returns cached = true and leaves the stored record
\* as it was: the stored result keeps cached = false and its message, origin and
\* creation time.  (The stored result is the very object the call that created the
\* entry returned, so the stored record is also what that earlier caller holds.)
C22_HitLeavesStored ==
    [][(Request /\ Hits)
           => /\ last'.response.cached
              /\ cache' = cache]_vars

(* ---- the claims about the course of one call and about calls made at once ---- *)
\* how far a call has come: the statements of get_feedback in the order of the code
Position(f) ==
    CASE f.pc = "idle" -> 0
      [] f.pc = "lookup" -> 1
      [] f.pc = "cached_item" -> 2
      [] f.pc = "expiry" -> 3
      [] f.pc = "load" /\ f.site = "cached" -> 4
      [] f.pc = "add" /\ f.site = "cached" -> 5
      [] f.pc = "is_rate_limited" -> 6
      [] f.pc = "load" /\ f.site = "rate_limited" -> 7
      [] f.pc = "add" /\ f.site = "rate_limited" -> 8
      [] f.pc = "add_request_timestamp" -> 9
      [] f.pc = "load" /\ f.site = "total" -> 10
      [] f.pc = "add" /\ f.site = "total" -> 11
      [] f.pc = "enabled" -> 12
      [] f.pc = "load" /\ f.site = "disabled" -> 13
      [] f.pc = "add" /\ f.site = "disabled" -> 14
      [] f.pc = "call_bedrock" -> 15
      [] f.pc = "load" -> 16
      [] f.pc = "add" -> 17
      [] f.pc = "capacity" -> 18
      [] f.pc = "oldest" -> 19
      [] f.pc = "evict" -> 20
      [] f.pc = "store" -> 21
      [] OTHER -> 22
\* the sources a returned result can carry
Sources ==
    Tags \cup {"fallback", "bedrock", "fallback_bedrock_error",
               "fallback_unexpected_error"}

\* C23: a call of get_feedback that has started returns one result in the end (the
\* upstream call, if made, returning or failing); each of its steps takes it further
\* down the code: cache lookup, quota check, test for the upstream, upstream call,
\* never back; it raises nothing; it calls the upstream at most once, and only after it
\* missed the cache, was admitted by the quota check and found the upstream enabled
\* with its client.
C23_Termination ==
    /\ [][\A t \in Threads :
            /\ (Running(frame[t]) /\ frame'[t] # frame[t])
                   => Position(frame'[t]) > Position(frame[t])
            /\ frame'[t].pc # "raised"
            /\ frame'[t].pc = "returned" => frame'[t].response.source \in Sources
            /\ frame'[t].calls <= 1
            /\ frame'[t].calls = 1
                   => /\ frame'[t].missed
                      /\ frame'[t].admitted
                      /\ frame'[t].available]_vars
    /\ \A t \in Threads : Running(frame[t]) ~> (frame[t].pc = "returned")

\* a call went through every stage, called the upstream and returned its text, after an
\* earlier call had ended on a cache hit
C23_Witness ==
    \E t \in Threads :
        /\ frame[t].pc = "returned"
        /\ frame[t].calls = 1
        /\ frame[t].response.source = "bedrock"
        /\ request_stats.cached_requests >= 1

\* the requests a list holds that are within the window at the clock
Live(timestamps, window) == Len(Prune(timestamps, now, window))
\* no window holds more than its ceiling
WithinCeilings ==
    /\ Live(request_timestamps, MinuteWindow) <= max_requests_per_minute
    /\ Live(hourly_request_timestamps, HourWindow) <= max_requests_per_hour
    /\ \A u \in DOMAIN user_request_limits :
           Live(user_request_limits[u], MinuteWindow) <= max_requests_per_user_per_minute
\* thread t has passed the quota check and has not yet recorded its request
Admitting(t) == frame[t].pc = "add_request_timestamp"
\* the step is the quota check of thread t
Checks(t) == frame[t].pc = "is_rate_limited" /\ frame'[t].pc # "is_rate_limited"
\* the step is the write of a counter by thread t
Writes(t) == frame[t].pc = "add" /\ frame'[t].pc # "add"

\* C24: with calls of get_feedback running at once, no quota check falls between the
\* quota check of another call and its recording; no window ever holds more requests
\* than its ceiling; and every increment raises its counter by one, none is lost.
C24_Serialized ==
    /\ []WithinCeilings
    /\ [][\A t \in Threads :
            /\ Checks(t) => \A q \in Threads \ {t} : ~Admitting(q)
            /\ Writes(t)
                   => request_stats'[Counter(frame[t].site)]
                          = request_stats[Counter(frame[t].site)] + 1]_vars

\* the calls of t and q ran at once, for one key, and both missed the cache
Racing(t, q) ==
    /\ t # q
    /\ frame[t].cache_key = frame[q].cache_key
    /\ q \in frame[t].overlap /\ t \in frame[q].overlap
    /\ frame[t].missed /\ frame[q].missed
\* the number of entries the cache holds under a key
Held(c, cache_key) == Cardinality({i \in DOMAIN c : c[i].key = cache_key})

\* C25: when two calls for one key run at once and both miss the cache, a cache write
\* of either removes the entry of another key only if the cache is at capacity and does
\* not hold the key, and leaves the cache with exactly one entry for the key, which is
\* the result just written, and with no more entries than max_cache_size.
C25_RacingMisses ==
    [][\A t, q \in Threads :
          Racing(t, q) =>
            /\ (frame[t].pc = "evict" /\ frame'[t].pc = "store"
                    /\ frame[t].oldest_key # frame[t].cache_key)
                   => /\ AtCapacity(Len(cache))
                      /\ CacheIndex(cache, frame[t].cache_key) = 0
            /\ (frame[t].pc = "store" /\ frame'[t].pc = "returned")
                   => /\ Held(cache', frame[t].cache_key) = 1
                      /\ Entry(cache', frame[t].cache_key).response = frame[t].response
                      /\ Entry(cache', frame[t].cache_key).timestamp = now
                      /\ Len(cache') <= max_cache_size]_vars

\* C26: however the calls of get_feedback running at once interleave, none of them
\* ends with an exception that leaves get_feedback: each returns a result.
C26_NoFault == \A t \in Threads : frame[t].pc # "raised"

(* ---- the claims about the reported quota, the counters and the keys ---- *)
\* a reported tier is at its ceiling
Full(tier) == tier.current >= tier.max
\* the reason that goes with the first reported tier at its ceiling, none when none is
FirstFull(ret) ==
    IF Full(ret.global_minute) THEN "global_minute_limit"
    ELSE IF Full(ret.global_hour) THEN "global_hour_limit"
    ELSE IF Full(ret.user_minute) THEN "user_minute_limit"
    ELSE ""
\* a tier is reported with the length of its window less the stale timestamps, its
\* ceiling, and what is left of it, never less than nothing
Reports(tier, timestamps, window, ceiling) ==
    /\ tier.current = Live(timestamps, window)
    /\ tier.max = ceiling
    /\ tier.remaining >= 0
    /\ tier.remaining = IF ceiling > tier.current THEN ceiling - tier.current ELSE 0

\* C27: get_rate_limit_status(caller) reports each of the three tiers with current = the
\* length of its window without the stale timestamps, max = its ceiling and remaining
\* = max(0, max - current); is_rate_limited is true exactly when a reported tier has
\* current >= max, limit_reason names the first such tier in the order global minute,
\* global hour, caller's minute, and both are what the quota check of get_feedback
\* decides for that caller at that instant.
C27_StatusConsistent ==
    [][\A user_id \in Users :
          (Called("get_rate_limit_status") /\ reply'.user_id = user_id) =>
            LET ret == reply'.ret
            IN  /\ Reports(ret.global_minute, request_timestamps, MinuteWindow,
                           max_requests_per_minute)
                /\ Reports(ret.global_hour, hourly_request_timestamps, HourWindow,
                           max_requests_per_hour)
                /\ Reports(ret.user_minute,
                           IF user_id \in DOMAIN user_request_limits
                           THEN user_request_limits[user_id] ELSE <<>>,
                           MinuteWindow, max_requests_per_user_per_minute)
                /\ ret.is_rate_limited
                       <=> (Full(ret.global_minute) \/ Full(ret.global_hour)
                                \/ Full(ret.user_minute))
                /\ ret.limit_reason = FirstFull(ret)
                /\ ret.is_rate_limited = Admit(user_id).limited
                /\ ret.limit_reason = Admit(user_id).reason]_vars

\* the status of a caller was reported with two tiers at their ceilings, the global
\* minute and the caller's own, and the global minute named as the reason
C27_Witness ==
    /\ reply.op = "get_rate_limit_status"
    /\ reply.ret.is_rate_limited
    /\ reply.ret.limit_reason = "global_minute_limit"
    /\ Full(reply.ret.global_minute) /\ Full(reply.ret.user_minute)
    /\ reply.ret.global_hour.remaining = 1

\* the counters
CounterNames ==
    {"total_requests", "bedrock_requests", "fallback_requests", "cached_requests",
     "rate_limited_requests"}
\* the counters the step raises by one, when it raises some by one and leaves the rest
Raised ==
    IF \A c \in CounterNames : request_stats'[c] \in {request_stats[c], request_stats[c] + 1}
    THEN {c \in CounterNames : request_stats'[c] = request_stats[c] + 1}
    ELSE {"none"}

\* C28: the counters are never negative and change only by increments of one or by
\* reset_statistics; a call served from the cache increments cached_requests alone, a
\* denied call rate_limited_requests alone, an admitted call total_requests and one of
\* bedrock_requests and fallback_requests; so between calls total_requests =
\* bedrock_requests + fallback_requests, cache hits and denials not being in the total.
C28_Accounting ==
    /\ [](/\ \A c \in CounterNames : request_stats[c] >= 0
          /\ request_stats.total_requests
                 = request_stats.bedrock_requests + request_stats.fallback_requests)
    /\ [][/\ Request =>
               Raised = CASE last'.path = "cached" -> {"cached_requests"}
                          [] last'.path = "rate_limited" -> {"rate_limited_requests"}
                          [] last'.path = "bedrock" ->
                                 {"total_requests", "bedrock_requests"}
                          [] OTHER -> {"total_requests", "fallback_requests"}
          /\ ~Request =>
               \/ request_stats' = request_stats
               \/ Called("reset_statistics") /\ request_stats' = ZeroStats]_vars

\* every kind of call has been counted: one answered by the upstream, one by a
\* fallback after admission, one from the cache and one denied
C28_Witness ==
    /\ request_stats.bedrock_requests = 1 /\ request_stats.fallback_requests = 1
    /\ request_stats.cached_requests = 1 /\ request_stats.rate_limited_requests = 1
    /\ request_stats.total_requests = 2

\* C29: a call that misses the cache, whatever path it takes, a failed upstream call
\* included, leaves a fresh entry for its key holding the result it returns; while that
\* entry is in the cache and within the time to live, every call for the key, by any
\* caller, is served that stored result, failure included, and calls no upstream.
C29_OneCallPerKey ==
    [][Request =>
        /\ last'.path # "cached"
               => /\ CacheIndex(cache', AskedKey) # 0
                  /\ Entry(cache', AskedKey).timestamp = now
                  /\ Entry(cache', AskedKey).response = last'.response
        /\ (/\ CacheIndex(cache, AskedKey) # 0
            /\ now - Entry(cache, AskedKey).timestamp <= cache_ttl_seconds)
               => /\ ~last'.called
                  /\ last'.path = "cached"
                  /\ last'.response
                         = [Entry(cache, AskedKey).response EXCEPT !.cached = TRUE]
                  /\ AskedKey \in DOMAIN hist
                  /\ last'.response.source = hist[AskedKey].source
                  /\ Entry(cache, AskedKey).timestamp = hist[AskedKey].at]_vars

\* the result of a failed upstream call, stored a minute ago for one caller, has just
\* been served to another caller
C29_Witness ==
    /\ IsRequest /\ last.path = "cached" /\ ~last.called
    /\ ~last.response.success
    /\ last.response.source = "fallback_bedrock_error"
    /\ LastKey \in DOMAIN hist
    /\ hist[LastKey].by # last.user_id
    /\ now - hist[LastKey].at = 60

\* C30: the result of every call of get_feedback(sign, error_code, user_id), served from
\* the cache or not, carries the sign and the error code the call was made with: an
\* entry stored for one pair is never served for another.
C30_AnswersRequest ==
    [][Request =>
        /\ last'.response.sign = last'.sign
        /\ last'.response.error_code = last'.error_code]_vars
====
